---- MODULE Spec2Model ----
(***************************************************************************)
(* The default module resolver of jerryscript's default port               *)
(* (jerry-port/default/default-module.c): the per-context module cache,    *)
(* jerry_port_module_resolve, jerry_port_module_release and the context    *)
(* data manager's init/deinit callbacks, together with the path helpers    *)
(* they use.  The build modelled is the __unix__ one (realpath, '/' as the *)
(* only separator).  The engine is single threaded, so each call of the    *)
(* port is one atomic step.                                                *)
(***************************************************************************)
EXTENDS Integers, Sequences, FiniteSets, TLC

(* ------------------------------ bounds -------------------------------- *)

\* Module objects the engine's heap holds at a time.
MaxModules == 2

\* The longest cache list the eviction pass is tried on by itself.
MaxList == 3

\* Calls of jerry_port_read_source counted for one (realm, path).
MaxCalls == 2

\* References to one module value the callers of resolve hold at a time.
MaxHeld == 1

\* The longest path string the platform is asked about.
MaxPathLen == 4

\* The objects the heap allocates modules from, and all objects a state
\* can name.
ModIds == 1..MaxModules

Objects == 1..(IF MaxList > MaxModules THEN MaxList ELSE MaxModules)

\* The realm objects of the context; "undefined" is the non-object value.
Realms == {"A", "B"}

ReleaseArgs == Realms \cup {"undefined"}

(* ---------------------------- the platform ---------------------------- *)

\* Paths are C strings: sequences of one-character strings.  A directory
\* entry is named by the sequence of its component names from the root.
Cwd == << <<"d">> >>

Dirs == { <<>>, << <<"d">> >> }

\* /d/m holds a valid module, /d/b holds text that is no module.
Files == { << <<"d">>, <<"m">> >>, << <<"d">>, <<"b">> >> }

ValidModules == { << <<"d">>, <<"m">> >> }

\* The specifiers a script imports: "m", "b", "x", "".
Specifiers == { <<"m">>, <<"b">>, <<"x">>, <<>> }

NoEnt == << <<"ENOENT">> >>

NullPath == <<"NULL">>

NullSource == << <<"NULL">> >>

\* What a read through a dangling record pointer may find besides the old
\* bytes: some other bytes.
JunkPath == <<"x", "/">>

RECURSIVE SplitFrom(_, _, _)
SplitFrom(s, i, cur) ==
  IF i > Len(s) THEN << cur >>
  ELSE IF s[i] = "/" THEN << cur >> \o SplitFrom(s, i + 1, <<>>)
  ELSE SplitFrom(s, i + 1, Append(cur, s[i]))

\* The components of a path string, empty ones included.
Split(s) == SplitFrom(s, 1, <<>>)

RECURSIVE Walk(_, _)
\* Path resolution of the operating system: from directory entry cur along
\* the components comps.
Walk(cur, comps) ==
  IF comps = <<>> THEN cur
  ELSE IF cur \notin Dirs THEN NoEnt
  ELSE LET c == Head(comps)
           rest == Tail(comps)
       IN  IF c = <<>> \/ c = <<".">> THEN Walk(cur, rest)
           ELSE IF c = <<".", ".">>
             THEN Walk(IF cur = <<>> THEN cur ELSE SubSeq(cur, 1, Len(cur) - 1), rest)
           ELSE IF Append(cur, c) \in Dirs \cup Files THEN Walk(Append(cur, c), rest)
           ELSE NoEnt

\* The characters of the paths met, and the path strings up to MaxPathLen.
Chars == {"/", "d", "m", "b", "x"}

Paths == UNION { [1..n -> Chars] : n \in 0..MaxPathLen }

\* The directory entry each path string names, or NoEnt: an absolute path
\* is resolved from the root, any other from the working directory.
NodeOf ==
  [path \in Paths |->
     IF path = <<>> THEN NoEnt
     ELSE Walk(IF path[1] = "/" THEN <<>> ELSE Cwd, Split(path))]

Node(path) == NodeOf[path]

RECURSIVE Join(_)
Join(node) ==
  IF node = <<>> THEN <<>> ELSE <<"/">> \o Head(node) \o Join(Tail(node))

\* realpath (path, NULL): the canonical absolute path, or NULL.
realpath(path, canon_fails) ==
  IF canon_fails \/ Node(path) = NoEnt THEN NullPath
  ELSE IF Node(path) = <<>> THEN <<"/">>
  ELSE Join(Node(path))

\* jerry_port_read_source: the file's content (named here by its directory
\* entry), or NULL when stat fails, the path is a directory, or opening,
\* allocating or reading fails.
jerry_port_read_source(path, io_fails) ==
  IF Node(path) \notin Files THEN NullSource
  ELSE IF io_fails THEN NullSource
  ELSE Node(path)

(* ----------------------------- the engine ----------------------------- *)

ModuleValue(n) == [tag |-> "module", id |-> n, type |-> "", msg |-> ""]

NoValue == [tag |-> "none", id |-> 0, type |-> "", msg |-> ""]

\* jerry_throw_sz
jerry_throw_sz(type, msg) == [tag |-> "exception", id |-> 0, type |-> type, msg |-> msg]

\* The exception the engine's parser makes for a source that is no module.
ParserException == [tag |-> "exception", id |-> 0, type |-> "SYNTAX", msg |-> "Unexpected token"]

\* jerry_parse of a source with JERRY_PARSE_MODULE: a new module object n,
\* or the parser's exception.
jerry_parse(source, n) ==
  IF source \in ValidModules THEN ModuleValue(n) ELSE ParserException

jerry_value_is_exception(v) == v.tag = "exception"

\* jerry_value_copy of module object n: the same value, one reference more.
jerry_value_copy(n) == ModuleValue(n)

jerry_value_is_object(v) == v \in Realms

(* ------------------------------ helpers ------------------------------- *)

\* The scan that returns the index of the separator, not the one after it.
RECURSIVE DirEndIndex(_, _)
DirEndIndex(path, end) ==
  IF end = 0 THEN 0
  ELSE IF path[end] = "/" THEN end - 1
  ELSE DirEndIndex(path, end - 1)

\* The loop of jerry_port_get_directory_end, end_p being path_p + end.
RECURSIVE DirEndFrom(_, _)
DirEndFrom(path, end) ==
  IF end = 0 THEN 0
  ELSE IF path[end] = "/" THEN end
  ELSE DirEndFrom(path, end - 1)

\* jerry_port_get_directory_end
jerry_port_get_directory_end(path) == DirEndFrom(path, Len(path))

\* Lines 146-172 of jerry_port_normalize_path: the bytes copied into the
\* new buffer, before realpath is asked.
Concatenate(in_path, base_path, base_path_length) ==
  IF base_path_length > 0
    THEN SubSeq(base_path, 1, base_path_length) \o in_path
    ELSE in_path

\* The normalization that gives up when realpath does.
NormalizeStrict(in_path, base_path, base_path_length, alloc_fails, canon_fails) ==
  IF alloc_fails THEN NullPath
  ELSE realpath(Concatenate(in_path, base_path, base_path_length), canon_fails)

\* jerry_port_normalize_path: NULL when the allocation fails, else the
\* canonical path, else the concatenation.  canon_fails stands for a
\* realpath that fails for a reason of its own; a build with neither
\* _WIN32 nor __unix__ compiles no call and returns what a failed call
\* leaves.
jerry_port_normalize_path(in_path, base_path, base_path_length, alloc_fails, canon_fails) ==
  IF alloc_fails THEN NullPath
  ELSE LET path == Concatenate(in_path, base_path, base_path_length)
           norm == realpath(path, canon_fails)
       IN  IF norm # NullPath THEN norm ELSE path

\* jerry_port_module_t; the record of module object n lives at address n.
Record(path, realm, n) ==
  [path |-> path,
   base_path_length |-> jerry_port_get_directory_end(path),
   realm |-> realm,
   module |-> n]

NoRecord == [path |-> <<>>, base_path_length |-> 0, realm |-> "", module |-> 0]

(* ------------------------------- state -------------------------------- *)

VARIABLES
  ctx,        \* "live" between the context's creation and its destruction
  cache,      \* the list from manager_p->module_head_p, head first
  nativePtr,  \* per module object: the record attached with jerry_object_set_native_ptr
  modRefs,    \* the engine's reference count of each module value
  realmRefs,  \* the engine's reference count of each realm value
  held,       \* references to each module value held by the callers of resolve
  crashed,    \* the process died on an invalid memory access
  abandoned,  \* references held by a call that never returned
  ret,        \* the value the last call of resolve returned
  last,       \* what the last call was and did
  firstRes,   \* the first successful resolution of each (realm, path) since the
              \* last eviction of that realm: (realm, path, module)
  watch,      \* the (realm, path) whose collaborator calls are counted, if any
  count,      \* the calls made for it since the last eviction of its realm
  probe,      \* when on: the arguments of the last resolve and the bytes it
              \* handed to realpath
  pathCall    \* a call of one of the path helpers by itself: arguments, result

vars ==
  << ctx, cache, nativePtr, modRefs, realmRefs, held, crashed, abandoned,
     ret, last, firstRes, watch, count, probe, pathCall >>

\* The host's own reference to each realm object.
HostRealmRefs == 1

\* A call: for a resolve that returned a module, the current realm and the
\* normalized path; the number of calls of jerry_port_read_source and of
\* jerry_parse it made; and the module the first successful resolve of its
\* (realm, path) since the last eviction of the realm returned (prior, 0
\* if none).
\* What a call did with the buffers and the reference it obtained: the
\* buffers malloc'ed and free'd (in_path_p, path_p), the path buffer and
\* the realm reference stored in a record, the sources read and released,
\* the realm references taken and released.
NoTemps == [in_path_allocs |-> 0, in_path_frees |-> 0,
            path_allocs |-> 0, path_frees |-> 0, path_stored |-> 0,
            source_reads |-> 0, source_releases |-> 0,
            realm_refs |-> 0, realm_frees |-> 0, realm_stored |-> 0]

\* norm_failed: jerry_port_normalize_path returned NULL; lookups: the scans
\* of the cache list the call made; temps: see NoTemps.
NoCall == [op |-> "init", realm |-> "", path |-> <<>>, outcome |-> "",
           reads |-> 0, parses |-> 0, prior |-> 0,
           norm_failed |-> FALSE, lookups |-> 0, temps |-> NoTemps]

\* Nothing probed.  pre is the bytes handed to realpath.
NoProbe == [on |-> FALSE, specifier |-> <<>>, referrer |-> 0, pre |-> <<>>]

NoPathCall == [fn |-> "", in_path |-> <<>>, base_path |-> <<>>, base_path_length |-> 0,
               alloc_fails |-> FALSE, canon_fails |-> FALSE, result |-> <<>>]

NoneAbandoned == [realm |-> "", module |-> 0]

NoWatch == [realm |-> "", path |-> <<>>]

\* Calls of jerry_port_read_source and of jerry_parse, and how many of the
\* resolutions that made them ended at the read, at the parse, and in the
\* allocation of the record.
NoCount == [reads |-> 0, parses |-> 0, read_fails |-> 0, parse_fails |-> 0, crashes |-> 0]

\* What the context data's memory may hold before the init callback runs.
Garbage == { <<>>, << [path |-> JunkPath, base_path_length |-> 0, realm |-> "A", module |-> 1] >> }

\* jerry_port_module_manager_init
jerry_port_module_manager_init(user_data) == <<>>

FreshContext(user_data) ==
  /\ ctx = "live"
  /\ cache = jerry_port_module_manager_init(user_data)
  /\ nativePtr = [n \in Objects |-> NoRecord]
  /\ modRefs = [n \in Objects |-> 0]
  /\ realmRefs = [r \in Realms |-> HostRealmRefs]
  /\ held = [n \in Objects |-> 0]
  /\ crashed = FALSE
  /\ abandoned = NoneAbandoned
  /\ ret = NoValue
  /\ last = NoCall
  /\ firstRes = {}
  /\ count = NoCount

Init ==
  \E user_data \in Garbage :
    FreshContext(user_data) /\ watch = NoWatch /\ probe = NoProbe /\ pathCall = NoPathCall

\* The object the engine's heap gives the next module: the lowest free one,
\* 0 when the heap is full.
NewObject ==
  IF \E n \in ModIds : modRefs[n] = 0
    THEN CHOOSE n \in ModIds : modRefs[n] = 0 /\ \A k \in ModIds : modRefs[k] = 0 => n <= k
    ELSE 0

\* An object whose last reference is dropped is destroyed, and with it the
\* native pointer it carried (the native info has no free callback).
Collect(ptrs, refs) == [n \in Objects |-> IF refs[n] = 0 THEN NoRecord ELSE ptrs[n]]

(* --------------------------- the module cache -------------------------- *)

\* The record at address n is linked into the list.
Linked(n) == \E i \in 1..Len(cache) : cache[i].module = n

\* The scan with a comparison that never holds (pointers compared in place
\* of strings).
CacheLookupNever(list, realm, path) == 0

\* The scan that compares the paths and not the realms.
RECURSIVE CacheLookupAnyRealm(_, _, _)
CacheLookupAnyRealm(list, realm, path) ==
  IF list = <<>> THEN 0
  ELSE IF Head(list).path = path THEN Head(list).module
  ELSE CacheLookupAnyRealm(Tail(list), realm, path)

\* The scan that starts at the second record.
RECURSIVE CacheLookupFrom(_, _, _, _)
CacheLookupFrom(list, i, realm, path) ==
  IF i > Len(list) THEN 0
  ELSE IF list[i].realm = realm /\ list[i].path = path THEN list[i].module
  ELSE CacheLookupFrom(list, i + 1, realm, path)

CacheLookupSkipsHead(list, realm, path) == CacheLookupFrom(list, 2, realm, path)

\* The scan of jerry_port_module_resolve: the module of the first record
\* of that realm and path, or 0.
RECURSIVE CacheLookup(_, _, _)
CacheLookup(list, realm, path) ==
  IF list = <<>> THEN 0
  ELSE IF Head(list).realm = realm /\ Head(list).path = path THEN Head(list).module
  ELSE CacheLookup(Tail(list), realm, path)

\* The list of the nodes reached from head along next (0 is NULL).
RECURSIVE Chain(_, _, _, _)
Chain(nodes, head, next, fuel) ==
  IF head = 0 \/ fuel = 0 THEN <<>>
  ELSE << nodes[head] >> \o Chain(nodes, next[head], next, fuel - 1)

\* The turn that moves prev_p onto a node it has just freed.
FreeStepKeepsPrev(nodes, st, realm, release_all) ==
  LET module_p == st.module_p
      next_p == st.next[module_p]
  IN  IF release_all \/ nodes[module_p].realm = realm
        THEN [st EXCEPT
                !.realmRefs = [@ EXCEPT ![nodes[module_p].realm] = @ - 1],
                !.modRefs = [@ EXCEPT ![nodes[module_p].module] = @ - 1],
                !.freed = @ \cup {module_p},
                !.head = IF st.prev_p = 0 THEN next_p ELSE @,
                !.next = IF st.prev_p = 0 THEN @ ELSE [@ EXCEPT ![st.prev_p] = next_p],
                !.prev_p = module_p,
                !.visits = Append(@, module_p),
                !.module_p = next_p]
        ELSE [st EXCEPT
                !.prev_p = module_p,
                !.visits = Append(@, module_p),
                !.module_p = next_p]

\* The turn that frees a record without releasing its module value.
FreeStepLeaksModule(nodes, st, realm, release_all) ==
  LET module_p == st.module_p
      next_p == st.next[module_p]
  IN  IF release_all \/ nodes[module_p].realm = realm
        THEN [st EXCEPT
                !.realmRefs = [@ EXCEPT ![nodes[module_p].realm] = @ - 1],
                !.freed = @ \cup {module_p},
                !.head = IF st.prev_p = 0 THEN next_p ELSE @,
                !.next = IF st.prev_p = 0 THEN @ ELSE [@ EXCEPT ![st.prev_p] = next_p],
                !.visits = Append(@, module_p),
                !.module_p = next_p]
        ELSE [st EXCEPT
                !.prev_p = module_p,
                !.visits = Append(@, module_p),
                !.module_p = next_p]

\* The turn that starts again from the head after it has freed a record.
FreeStepRestarts(nodes, st, realm, release_all) ==
  LET module_p == st.module_p
      next_p == st.next[module_p]
  IN  IF release_all \/ nodes[module_p].realm = realm
        THEN [st EXCEPT
                !.realmRefs = [@ EXCEPT ![nodes[module_p].realm] = @ - 1],
                !.modRefs = [@ EXCEPT ![nodes[module_p].module] = @ - 1],
                !.freed = @ \cup {module_p},
                !.head = IF st.prev_p = 0 THEN next_p ELSE @,
                !.next = IF st.prev_p = 0 THEN @ ELSE [@ EXCEPT ![st.prev_p] = next_p],
                !.visits = Append(@, module_p),
                !.prev_p = 0,
                !.module_p = IF st.prev_p = 0 THEN next_p ELSE st.head]
        ELSE [st EXCEPT
                !.prev_p = module_p,
                !.visits = Append(@, module_p),
                !.module_p = next_p]

\* One turn of the while loop of jerry_port_module_free on node module_p.
FreeStep(nodes, st, realm, release_all) ==
  LET module_p == st.module_p
      next_p == st.next[module_p]
  IN  IF release_all \/ nodes[module_p].realm = realm
        THEN [st EXCEPT
                !.realmRefs = [@ EXCEPT ![nodes[module_p].realm] = @ - 1],
                !.modRefs = [@ EXCEPT ![nodes[module_p].module] = @ - 1],
                !.freed = @ \cup {module_p},
                !.head = IF st.prev_p = 0 THEN next_p ELSE @,
                !.next = IF st.prev_p = 0 THEN @ ELSE [@ EXCEPT ![st.prev_p] = next_p],
                !.visits = Append(@, module_p),
                !.module_p = next_p]
        ELSE [st EXCEPT
                !.prev_p = module_p,
                !.visits = Append(@, module_p),
                !.module_p = next_p]

RECURSIVE FreeLoop(_, _, _, _)
FreeLoop(nodes, st, realm, release_all) ==
  IF st.module_p = 0 THEN st
  ELSE FreeLoop(nodes, FreeStep(nodes, st, realm, release_all), realm, release_all)

\* The pass with release_all lacking its negation.
jerry_port_module_free_unnegated(nodes, realm, rrefs, mrefs) ==
  FreeLoop(nodes,
           [module_p |-> IF nodes = <<>> THEN 0 ELSE 1,
            prev_p |-> 0,
            head |-> IF nodes = <<>> THEN 0 ELSE 1,
            next |-> [i \in 1..Len(nodes) |-> IF i = Len(nodes) THEN 0 ELSE i + 1],
            realmRefs |-> rrefs,
            modRefs |-> mrefs,
            freed |-> {},
            visits |-> <<>>],
           realm,
           jerry_value_is_object(realm))

\* jerry_port_module_free on the list nodes: the loop's final state.
jerry_port_module_free(nodes, realm, rrefs, mrefs) ==
  FreeLoop(nodes,
           [module_p |-> IF nodes = <<>> THEN 0 ELSE 1,
            prev_p |-> 0,
            head |-> IF nodes = <<>> THEN 0 ELSE 1,
            next |-> [i \in 1..Len(nodes) |-> IF i = Len(nodes) THEN 0 ELSE i + 1],
            realmRefs |-> rrefs,
            modRefs |-> mrefs,
            freed |-> {},
            visits |-> <<>>],
           realm,
           ~jerry_value_is_object(realm))

\* The probe after a call that is no resolve.
ProbeReset == [NoProbe EXCEPT !.on = probe.on]

Evict(realm, op) ==
  LET st == jerry_port_module_free(cache, realm, realmRefs, modRefs)
  IN  /\ cache' = Chain(cache, st.head, st.next, Len(cache))
      /\ realmRefs' = st.realmRefs
      /\ modRefs' = st.modRefs
      /\ nativePtr' = Collect(nativePtr, st.modRefs)
      /\ firstRes' = {f \in firstRes : jerry_value_is_object(realm) /\ f.realm # realm}
      /\ last' = [NoCall EXCEPT !.op = op, !.realm = realm]
      /\ count' = IF jerry_value_is_object(realm) /\ watch.realm # realm
                    THEN count ELSE NoCount
      /\ probe' = ProbeReset
      /\ UNCHANGED << held, crashed, abandoned, ret, watch >>

\* jerry_port_module_release
jerry_port_module_release(realm) ==
  /\ ctx = "live" /\ ~crashed
  /\ Evict(realm, "release")
  /\ UNCHANGED ctx

\* jerry_port_module_manager_deinit, called when the context is destroyed.
jerry_port_module_manager_deinit ==
  /\ ctx = "live" /\ ~crashed
  /\ Evict("undefined", "deinit")
  /\ ctx' = "dead"

\* A new context: the engine starts afresh and runs the init callback on
\* the context data's uninitialised memory.
ContextInit(user_data) ==
  /\ ctx = "dead"
  /\ ctx' = "live"
  /\ cache' = jerry_port_module_manager_init(user_data)
  /\ nativePtr' = [n \in Objects |-> NoRecord]
  /\ modRefs' = [n \in Objects |-> 0]
  /\ realmRefs' = [r \in Realms |-> HostRealmRefs]
  /\ held' = [n \in Objects |-> 0]
  /\ crashed' = FALSE
  /\ abandoned' = NoneAbandoned
  /\ ret' = NoValue
  /\ last' = NoCall
  /\ firstRes' = {}
  /\ count' = NoCount
  /\ probe' = ProbeReset
  /\ UNCHANGED watch

\* A caller drops a reference to a module value it got from resolve.
CallerFree(n) ==
  /\ ctx = "live" /\ ~crashed
  /\ held[n] > 0
  /\ held' = [held EXCEPT ![n] = @ - 1]
  /\ modRefs' = [modRefs EXCEPT ![n] = @ - 1]
  /\ nativePtr' = Collect(nativePtr, modRefs')
  /\ last' = [NoCall EXCEPT !.op = "free_value"]
  /\ probe' = ProbeReset
  /\ UNCHANGED << ctx, cache, realmRefs, crashed, abandoned, ret, firstRes,
                  watch, count >>

(* ----------------------------- the resolver ---------------------------- *)

\* What one call of resolve can meet: no fault, or the failure of one of
\* its allocations, of realpath or of the file's reading.
Faults == {"none", "allocIn", "allocPath", "canon", "readIO", "allocRec"}

\* What the read of a freed record through a referrer's native pointer
\* yields: the old bytes, other bytes, or an invalid access.
UafOutcomes == {"stale", "junk", "crash"}

\* The module the first successful resolution of (realm, path) since the
\* last eviction of realm returned, or 0.
Prior(realm, path) ==
  IF \E f \in firstRes : f.realm = realm /\ f.path = path
    THEN (CHOOSE f \in firstRes : f.realm = realm /\ f.path = path).module
    ELSE 0

\* The first successful resolution since the last eviction is remembered.
Remember(realm, path, n) ==
  IF \E f \in firstRes : f.realm = realm /\ f.path = path
    THEN firstRes
    ELSE firstRes \cup {[realm |-> realm, path |-> path, module |-> n]}

\* The (realm, path) of a call is the one whose calls are counted.
Watched(realm, path) == watch.realm = realm /\ watch.path = path

\* The counts after a resolution of (realm, path) that made reads calls of
\* jerry_port_read_source and parses calls of jerry_parse and ended as outcome.
Counted(realm, path, reads, parses, outcome) ==
  IF ~Watched(realm, path) THEN count
  ELSE [reads |-> count.reads + reads,
        parses |-> count.parses + parses,
        read_fails |-> count.read_fails + (IF outcome = "read_fail" THEN 1 ELSE 0),
        parse_fails |-> count.parse_fails + (IF outcome = "parse_fail" THEN 1 ELSE 0),
        crashes |-> count.crashes + (IF outcome = "crash" THEN 1 ELSE 0)]

\* The value handed on without a copy: no reference more.
CopyRefsShared(refs, n) == refs

\* jerry_value_copy (lines 352 and 394): one reference more to module n.
CopyRefs(refs, n) == [refs EXCEPT ![n] = @ + 1]

\* What each way out of jerry_port_module_resolve has done with the
\* buffers and the realm reference of the call.
Temporaries(outcome) ==
  CASE outcome = "oom" ->        \* lines 326-336
         [NoTemps EXCEPT !.in_path_allocs = 1]
    [] outcome = "hit" ->        \* lines 326-352
         [NoTemps EXCEPT !.in_path_allocs = 1, !.in_path_frees = 1,
                         !.path_allocs = 1, !.path_frees = 1,
                         !.realm_refs = 1, !.realm_frees = 1]
    [] outcome = "read_fail" ->  \* lines 326-365
         [NoTemps EXCEPT !.in_path_allocs = 1, !.in_path_frees = 1,
                         !.path_allocs = 1, !.path_frees = 1,
                         !.realm_refs = 1, !.realm_frees = 1]
    [] outcome = "parse_fail" -> \* lines 326-385
         [NoTemps EXCEPT !.in_path_allocs = 1, !.in_path_frees = 1,
                         !.path_allocs = 1, !.path_frees = 1,
                         !.source_reads = 1, !.source_releases = 1,
                         !.realm_refs = 1, !.realm_frees = 1]
    [] outcome = "inserted" ->   \* lines 326-399
         [NoTemps EXCEPT !.in_path_allocs = 1, !.in_path_frees = 1,
                         !.path_allocs = 1, !.path_stored = 1,
                         !.source_reads = 1, !.source_releases = 1,
                         !.realm_refs = 1, !.realm_stored = 1]
    [] OTHER -> NoTemps

\* The missing path reported as a missing file.
ResolveOomAsSyntax(call) ==
  /\ ret' = jerry_throw_sz("SYNTAX", "Module file not found")
  /\ last' = [call EXCEPT !.outcome = "oom", !.temps = Temporaries("oom")]
  /\ UNCHANGED << cache, nativePtr, modRefs, realmRefs, held, crashed, abandoned,
                  firstRes, watch, count >>

\* Lines 333-336 of jerry_port_module_resolve: no path.
ResolveOom(call) ==
  /\ ret' = jerry_throw_sz("COMMON", "Out of memory")
  /\ last' = [call EXCEPT !.outcome = "oom", !.temps = Temporaries("oom")]
  /\ UNCHANGED << cache, nativePtr, modRefs, realmRefs, held, crashed, abandoned,
                  firstRes, watch, count >>

\* Lines 338-353: the record of the current realm and the path is found.
ResolveHit(call, realm, path_p, found) ==
  /\ held[found] < MaxHeld
  /\ ret' = jerry_value_copy(found)
  /\ modRefs' = CopyRefs(modRefs, found)
  /\ held' = [held EXCEPT ![found] = @ + 1]
  /\ realmRefs' = [[realmRefs EXCEPT ![realm] = @ + 1] EXCEPT ![realm] = @ - 1]
  /\ last' = [call EXCEPT !.outcome = "hit", !.realm = realm, !.path = path_p,
                          !.prior = Prior(realm, path_p), !.lookups = 1,
                          !.temps = Temporaries("hit")]
  /\ firstRes' = Remember(realm, path_p, found)
  /\ UNCHANGED << cache, nativePtr, crashed, abandoned, watch, count >>

\* The missing file reported as a reference error.
NotFoundAsReference == jerry_throw_sz("REFERENCE", "Module file not found")

\* The parser's exception replaced by one of the resolver's own.
ParseFailureWrapped(ret_value) == jerry_throw_sz("SYNTAX", "Module file not found")

\* The record linked in before the parse's result is looked at.
CacheAfterParseAlways(list, record, ret_value) == << record >> \o list

\* The record linked in at the tail of the list.
CacheAfterParseAppends(list, record, ret_value) ==
  IF jerry_value_is_exception(ret_value) THEN list ELSE Append(list, record)

\* The record made and never linked into the list.
CacheAfterParseNever(list, record, ret_value) == list

\* Line 368: what resolve returns when the source cannot be read.
NotFoundException == jerry_throw_sz("SYNTAX", "Module file not found")

\* Lines 381-386: what resolve returns when jerry_parse gave an exception.
ParseFailureResult(ret_value) == ret_value

\* Lines 381-397: the list after the parse: the new record is linked in
\* front unless ret_value is an exception.
CacheAfterParse(list, record, ret_value) ==
  IF jerry_value_is_exception(ret_value) THEN list ELSE << record >> \o list

\* Lines 338-399: no record is found; the file is read and parsed.
ResolveMiss(call, realm, path_p, fault) ==
  LET source_p == jerry_port_read_source(path_p, fault = "readIO")
      new_id == NewObject
      ret_value == jerry_parse(source_p, new_id)
      miss == [call EXCEPT !.prior = Prior(realm, path_p), !.reads = 1, !.lookups = 1]
  IN  /\ Watched(realm, path_p) => count.reads < MaxCalls
      /\ UNCHANGED watch
      /\ IF source_p = NullSource
           THEN \* lines 361-369
                /\ ret' = NotFoundException
                /\ realmRefs' = [[realmRefs EXCEPT ![realm] = @ + 1] EXCEPT ![realm] = @ - 1]
                /\ last' = [miss EXCEPT !.outcome = "read_fail",
                                        !.temps = Temporaries("read_fail")]
                /\ count' = Counted(realm, path_p, 1, 0, "read_fail")
                /\ UNCHANGED << cache, nativePtr, modRefs, held, crashed, abandoned,
                                firstRes >>
         ELSE IF jerry_value_is_exception(ret_value)
           THEN \* lines 371-386
                /\ ret' = ParseFailureResult(ret_value)
                /\ cache' = CacheAfterParse(cache, Record(path_p, realm, new_id), ret_value)
                /\ realmRefs' = [[realmRefs EXCEPT ![realm] = @ + 1] EXCEPT ![realm] = @ - 1]
                /\ last' = [miss EXCEPT !.outcome = "parse_fail", !.parses = 1,
                                        !.temps = Temporaries("parse_fail")]
                /\ count' = Counted(realm, path_p, 1, 1, "parse_fail")
                /\ UNCHANGED << nativePtr, modRefs, held, crashed, abandoned, firstRes >>
         ELSE IF fault = "allocRec"
           THEN \* lines 388-390: a write through NULL
                /\ new_id # 0
                /\ crashed' = TRUE
                /\ ret' = NoValue
                /\ modRefs' = [modRefs EXCEPT ![new_id] = 1]
                /\ realmRefs' = [realmRefs EXCEPT ![realm] = @ + 1]
                /\ abandoned' = [realm |-> realm, module |-> new_id]
                /\ last' = [miss EXCEPT !.outcome = "crash", !.parses = 1]
                /\ count' = Counted(realm, path_p, 1, 1, "crash")
                /\ UNCHANGED << cache, nativePtr, held, firstRes >>
         ELSE \* lines 388-399
                /\ new_id # 0
                /\ ret' = ret_value
                /\ cache' = CacheAfterParse(cache, Record(path_p, realm, new_id), ret_value)
                /\ nativePtr' = [nativePtr EXCEPT ![new_id] = Record(path_p, realm, new_id)]
                /\ modRefs' = CopyRefs([modRefs EXCEPT ![new_id] = 1], new_id)
                /\ held' = [held EXCEPT ![new_id] = 1]
                /\ realmRefs' = [realmRefs EXCEPT ![realm] = @ + 1]
                /\ last' = [miss EXCEPT !.outcome = "inserted", !.parses = 1,
                                        !.realm = realm, !.path = path_p,
                                        !.temps = Temporaries("inserted")]
                /\ firstRes' = Remember(realm, path_p, new_id)
                /\ count' = Counted(realm, path_p, 1, 1, "inserted")
                /\ UNCHANGED << crashed, abandoned >>

\* jerry_port_module_resolve (specifier, referrer, user_p) with the current
\* realm being realm; referrer 0 is a value with no record attached.
jerry_port_module_resolve(specifier, referrer, realm, fault, uaf) ==
  LET module_p == IF referrer = 0 THEN NoRecord ELSE nativePtr[referrer]
      dangling == referrer # 0 /\ ~Linked(referrer)
      base_path_p == IF dangling /\ uaf = "junk" THEN JunkPath ELSE module_p.path
      base_path_length ==
        IF dangling /\ uaf = "junk" THEN Len(JunkPath) ELSE module_p.base_path_length
      call == [NoCall EXCEPT !.op = "resolve"]
      stopped == (dangling /\ uaf = "crash") \/ fault = "allocIn" \/ fault = "allocPath"
  IN  /\ ctx = "live" /\ ~crashed
      /\ dangling \/ uaf = "stale"
      /\ UNCHANGED ctx
      /\ probe' = IF probe.on
                    THEN [on |-> TRUE, specifier |-> specifier, referrer |-> referrer,
                          pre |-> IF stopped THEN <<>>
                                  ELSE Concatenate(specifier, base_path_p, base_path_length)]
                    ELSE probe
      /\ IF (dangling /\ uaf = "crash") \/ fault = "allocIn"
           THEN \* lines 322-329: a read of freed memory, a write through NULL
                /\ crashed' = TRUE
                /\ ret' = NoValue
                /\ last' = [call EXCEPT !.outcome = "crash"]
                /\ UNCHANGED << cache, nativePtr, modRefs, realmRefs, held,
                                abandoned, firstRes, watch, count >>
           ELSE \E path_p \in {jerry_port_normalize_path(specifier, base_path_p,
                                 base_path_length, fault = "allocPath", fault = "canon")} :
                  IF path_p = NullPath
                    THEN ResolveOom([call EXCEPT !.norm_failed = TRUE])
                    ELSE \E found \in {CacheLookup(cache, realm, path_p)} :
                           IF found # 0
                             THEN ResolveHit(call, realm, path_p, found)
                             ELSE ResolveMiss(call, realm, path_p, fault)

(* --------------------------- the specification ------------------------- *)

\* The module values a caller can pass as referrer: those it holds.
Referrers == {0} \cup {n \in ModIds : held[n] > 0}

Resolve ==
  \E specifier \in Specifiers, referrer \in Referrers, realm \in Realms,
     fault \in Faults, uaf \in UafOutcomes :
       /\ jerry_port_module_resolve(specifier, referrer, realm, fault, uaf)
       /\ UNCHANGED pathCall

Release ==
  \E realm \in ReleaseArgs : jerry_port_module_release(realm) /\ UNCHANGED pathCall

Deinit == jerry_port_module_manager_deinit /\ UNCHANGED pathCall

Reinit == \E user_data \in Garbage : ContextInit(user_data) /\ UNCHANGED pathCall

Drop == \E n \in ModIds : CallerFree(n) /\ UNCHANGED pathCall

Next == Resolve \/ Release \/ Deinit \/ Reinit \/ Drop

Spec == Init /\ [][Next]_vars

(* ------------------ counting the collaborators' calls ------------------ *)

\* The (realm, path) whose reads and parses are counted: the valid module
\* in one realm, or the file that is no module in the other.
WatchPairs ==
  { [realm |-> "A", path |-> <<"/", "d", "/", "m">>],
    [realm |-> "B", path |-> <<"/", "d", "/", "b">>] }

\* The same program, with the calls made for one (realm, path) counted.
InitCount ==
  \E user_data \in Garbage, w \in WatchPairs :
    FreshContext(user_data) /\ watch = w /\ probe = NoProbe /\ pathCall = NoPathCall

SpecCount == InitCount /\ [][Next]_vars

(* ------------------- the eviction pass on drawn lists ------------------ *)

\* The paths a record can hold: those a valid module was read from.
KeyPaths == { <<"/", "d", "/", "m">>, <<"m">> }

Keys == {[realm |-> r, path |-> p] : r \in Realms, p \in KeyPaths}

\* The lists the cache can be: at most one record per (realm, path).
KeyLists ==
  { s \in UNION { [1..n -> Keys] : n \in 0..MaxList } :
      \A i, j \in 1..Len(s) : i # j => s[i] # s[j] }

\* The cache holds the list of keys, the record of the k-th oldest
\* resolution belonging to object k; the callers hold the objects of h.
DrawnCache(keys, h) ==
  LET n == Len(keys)
      rec(i) == Record(keys[i].path, keys[i].realm, n - i + 1)
  IN  /\ ctx = "live"
      /\ cache = [i \in 1..n |-> rec(i)]
      /\ nativePtr = [k \in Objects |-> IF k <= n THEN rec(n - k + 1) ELSE NoRecord]
      /\ held = [k \in Objects |-> IF k \in h THEN 1 ELSE 0]
      /\ modRefs = [k \in Objects |-> IF k <= n THEN (IF k \in h THEN 2 ELSE 1) ELSE 0]
      /\ realmRefs = [r \in Realms |->
                        HostRealmRefs + Cardinality({i \in 1..n : keys[i].realm = r})]
      /\ crashed = FALSE
      /\ abandoned = NoneAbandoned
      /\ ret = NoValue
      /\ last = [NoCall EXCEPT !.op = "drawn"]
      /\ firstRes = {[realm |-> keys[i].realm, path |-> keys[i].path, module |-> n - i + 1] :
                       i \in 1..n}
      /\ watch = NoWatch
      /\ count = NoCount
      /\ probe = NoProbe
      /\ pathCall = NoPathCall

InitFree == \E keys \in KeyLists : \E h \in SUBSET (1..Len(keys)) : DrawnCache(keys, h)

NextFree == Release \/ Deinit

SpecFree == InitFree /\ [][NextFree]_vars

(* ------------------- the arguments of the resolver --------------------- *)

\* The same program, with the arguments of each resolve and the bytes it
\* hands to realpath kept.
InitBase ==
  \E user_data \in Garbage :
    /\ FreshContext(user_data)
    /\ watch = NoWatch
    /\ probe = [NoProbe EXCEPT !.on = TRUE]
    /\ pathCall = NoPathCall

SpecBase == InitBase /\ [][Next]_vars

(* --------------------- the path helpers by themselves ------------------ *)

\* A record's path with a base length: none, the directory end, the whole
\* path; and a relative one.
BaseChoices ==
  { [base_path |-> <<>>, base_path_length |-> 0],
    [base_path |-> <<"/", "d", "/", "m">>, base_path_length |-> 0],
    [base_path |-> <<"/", "d", "/", "m">>, base_path_length |-> 3],
    [base_path |-> <<"/", "d", "/", "m">>, base_path_length |-> 4],
    [base_path |-> <<"d", "/", "x">>, base_path_length |-> 2] }

\* The arguments of a call are drawn; the context is fresh and stays so.
InitPath ==
  \E in_path \in Paths, b \in BaseChoices, alloc_fails, canon_fails \in BOOLEAN :
    /\ FreshContext(<<>>)
    /\ watch = NoWatch
    /\ probe = NoProbe
    /\ pathCall = [NoPathCall EXCEPT !.in_path = in_path,
                                    !.base_path = b.base_path,
                                    !.base_path_length = b.base_path_length,
                                    !.alloc_fails = alloc_fails,
                                    !.canon_fails = canon_fails]

DirectoryEnd ==
  /\ pathCall.fn = ""
  /\ pathCall' = [pathCall EXCEPT
                    !.fn = "jerry_port_get_directory_end",
                    !.result = jerry_port_get_directory_end(pathCall.in_path)]
  /\ UNCHANGED << ctx, cache, nativePtr, modRefs, realmRefs, held, crashed, abandoned,
                  ret, last, firstRes, watch, count, probe >>

NormalizePath ==
  /\ pathCall.fn = ""
  /\ Len(Concatenate(pathCall.in_path, pathCall.base_path, pathCall.base_path_length))
       <= MaxPathLen
  /\ pathCall' = [pathCall EXCEPT
                    !.fn = "jerry_port_normalize_path",
                    !.result = jerry_port_normalize_path(pathCall.in_path,
                                 pathCall.base_path, pathCall.base_path_length,
                                 pathCall.alloc_fails, pathCall.canon_fails)]
  /\ UNCHANGED << ctx, cache, nativePtr, modRefs, realmRefs, held, crashed, abandoned,
                  ret, last, firstRes, watch, count, probe >>

NextPath == DirectoryEnd \/ NormalizePath

SpecPath == InitPath /\ [][NextPath]_vars

(* ------------------------------ the claims ----------------------------- *)

\* The record of (realm, path) holding module n is in the cache.
Cached(realm, path, n) ==
  \E i \in 1..Len(cache) :
    cache[i].realm = realm /\ cache[i].path = path /\ cache[i].module = n

\* C1: once a resolve of a (realm, path) has returned a module and the
\* realm's records have not been evicted since, every later resolve that
\* normalizes to the same (realm, path) returns that same module and calls
\* neither jerry_port_read_source nor jerry_parse.
C1_IdempotentResolution ==
  (last.op = "resolve" /\ last.prior # 0) =>
    /\ ret = ModuleValue(last.prior)
    /\ last.reads = 0
    /\ last.parses = 0

\* A second resolve of a (realm, path) already resolved has just returned.
C1_Witness ==
  /\ last.op = "resolve" /\ last.outcome = "hit" /\ last.prior # 0
  /\ ret.tag = "module"

\* C2: the cache list never holds two records of the same realm and path.
C2_UniqueRecords ==
  \A i, j \in 1..Len(cache) :
    (i # j /\ cache[i].realm = cache[j].realm) => cache[i].path # cache[j].path

\* Two records of one realm are cached and a further resolve of one of
\* them has just been served from the cache.
C2_Witness ==
  /\ Len(cache) = 2
  /\ cache[1].realm = cache[2].realm
  /\ last.outcome = "hit"

\* C3: records of distinct realms are distinct records with distinct module
\* values, also for the same path; a resolve is served only from a record
\* of the current realm; releasing one realm leaves every record of the
\* other realms cached, and a later resolve of such a record's path in its
\* realm returns the module first returned for it.
C3_RealmIsolation ==
  /\ \A i, j \in 1..Len(cache) : i # j => cache[i].module # cache[j].module
  /\ last.outcome = "hit" =>
       /\ ret.tag = "module"
       /\ Cached(last.realm, last.path, ret.id)
       /\ last.prior # 0 => ret.id = last.prior
  /\ (last.op = "release" /\ jerry_value_is_object(last.realm)) =>
       \A f \in firstRes : f.realm # last.realm /\ Cached(f.realm, f.path, f.module)

\* Realm A's module of a path is still held though its record has been
\* released, and a resolve of the same path in realm B has just been
\* served from B's own record with the module B first got.
C3_Witness ==
  /\ last.outcome = "hit" /\ last.realm = "B"
  /\ ret.id = last.prior
  /\ \E n \in Objects :
       /\ held[n] > 0 /\ ~Linked(n) /\ n # ret.id
       /\ nativePtr[n].realm = "A" /\ nativePtr[n].path = last.path

\* C4: jerry_port_module_release with a realm object leaves exactly the
\* records of the other realms, in their order, the head being the first
\* of them.
C4_SelectiveEviction ==
  [][(last'.op = "release" /\ jerry_value_is_object(last'.realm)) =>
       LET Survives(record) == record.realm # last'.realm
       IN  cache' = SelectSeq(cache, Survives)]_vars

\* Realm A has just been released from a list of three records that had
\* A's records at its head and at its tail and B's record between them.
C4_Witness ==
  /\ last.op = "release" /\ last.realm = "A"
  /\ Len(cache) = 1 /\ cache[1].module = 2 /\ cache[1].realm = "B"
  /\ nativePtr[1].realm = "A" /\ ~Linked(1)
  /\ nativePtr[3].realm = "A" /\ ~Linked(3)

\* C5: the cache is empty after the context's init callback; after the
\* deinit callback or a release with a non-object value it is empty, and
\* the lookup of every (realm, path) finds nothing.
C5_EvictionCompleteness ==
  /\ last.op = "init" => cache = <<>>
  /\ (last.op = "deinit" \/ (last.op = "release" /\ ~jerry_value_is_object(last.realm))) =>
       /\ cache = <<>>
       /\ \A r \in Realms, p \in KeyPaths : CacheLookup(cache, r, p) = 0

\* The context has just been torn down while a caller still held a module
\* whose record was cached.
C5_Witness ==
  /\ last.op = "deinit"
  /\ \E n \in Objects : held[n] > 0 /\ nativePtr[n] # NoRecord

\* C6: a resolve that misses the cache and whose source cannot be read
\* returns the SYNTAX exception with the fixed message, without a call of
\* jerry_parse.
C6_MissingFile ==
  last.outcome = "read_fail" =>
    /\ ret = jerry_throw_sz("SYNTAX", "Module file not found")
    /\ last.reads = 1
    /\ last.parses = 0

\* A resolve has just failed at the read while another module was cached.
C6_Witness == last.outcome = "read_fail" /\ cache # <<>>

\* C7: a resolve whose source is read and whose parse gives an exception
\* returns the parser's exception itself and adds no record.
C7_ParseFailure ==
  [][last'.outcome = "parse_fail" =>
       /\ ret' = ParserException
       /\ last'.parses = 1
       /\ cache' = cache]_vars

\* A resolve has just failed at the parse while another module was cached.
C7_Witness == last.outcome = "parse_fail" /\ ret = ParserException /\ cache # <<>>

\* C8: a resolve that returns an exception leaves the cache list as it
\* was, and a resolve changes the list only when it has parsed a module.
C8_FailureLeavesCache ==
  [][last'.op = "resolve" =>
       /\ jerry_value_is_exception(ret') => cache' = cache
       /\ cache' # cache =>
            /\ last'.outcome = "inserted" /\ last'.parses = 1
            /\ ret'.tag = "module"
            /\ cache' = << Record(last'.path, last'.realm, ret'.id) >> \o cache]_vars

\* A resolve has just failed for want of memory with two records cached.
C8_Witness == last.outcome = "oom" /\ jerry_value_is_exception(ret) /\ Len(cache) = 2

\* The counted (realm, path) is cached.
WatchCached == \E i \in 1..Len(cache) : Watched(cache[i].realm, cache[i].path)

\* C9 as stated: jerry_port_read_source and jerry_parse are each called at
\* most once for a (realm, path), and exactly once for one that is cached.
C9_ExactlyOnce ==
  /\ count.reads <= 1
  /\ count.parses <= 1
  /\ WatchCached => (count.reads = 1 /\ count.parses = 1)

\* C9 amended: since the last eviction of its realm, the reads of a (realm,
\* path) are one per resolution that failed at the read, at the parse or in
\* the record's allocation, and one more if it is cached; its parses are one
\* per resolution that failed at the parse or in the record's allocation,
\* and one more if it is cached.
C9_OncePerMiss ==
  LET ok == IF WatchCached THEN 1 ELSE 0
  IN  /\ count.reads = count.read_fails + count.parse_fails + count.crashes + ok
      /\ count.parses = count.parse_fails + count.crashes + ok

\* The counted pair was read twice, the first resolution having failed at
\* the read, and a later resolve of it has just been served from the cache.
C9_Witness ==
  /\ WatchCached
  /\ count.reads = 2 /\ count.read_fails = 1 /\ count.parses = 1
  /\ last.outcome = "hit" /\ Watched(last.realm, last.path)

\* C10: the references to each realm and to each module value beyond those
\* of the host, of the callers and of a call that died are as many as the
\* records of the cache that store it.
C10_ReferenceCounts ==
  /\ \A r \in Realms :
       realmRefs[r] - HostRealmRefs - (IF abandoned.realm = r THEN 1 ELSE 0)
         = Cardinality({i \in 1..Len(cache) : cache[i].realm = r})
  /\ \A n \in Objects :
       /\ modRefs[n] - held[n] - (IF abandoned.module = n THEN 1 ELSE 0)
            = Cardinality({i \in 1..Len(cache) : cache[i].module = n})
       /\ Cardinality({i \in 1..Len(cache) : cache[i].module = n}) <= 1

\* Two records of realm A are cached, one of them also held by a caller,
\* and a resolve has just been served from the cache.
C10_Witness ==
  /\ realmRefs["A"] = HostRealmRefs + 2
  /\ \E n \in Objects : modRefs[n] = 2 /\ held[n] = 1 /\ Linked(n)
  /\ last.outcome = "hit"

\* C11 as stated: every call of jerry_port_module_resolve returns a module
\* or an exception, whichever collaborator or allocation fails; the
\* process never dies on an invalid memory access.
C11_NoCrash ==
  /\ ~crashed
  /\ last.op = "resolve" => (ret.tag = "module" \/ ret.tag = "exception")

\* C12: a resolve whose jerry_port_normalize_path returns NULL returns the
\* COMMON exception "Out of memory", without a scan of the cache, a read of
\* a file or a call of jerry_parse.
C12_OutOfMemoryMapping ==
  (last.op = "resolve" /\ last.norm_failed) =>
    /\ ret = jerry_throw_sz("COMMON", "Out of memory")
    /\ last.outcome = "oom"
    /\ last.lookups = 0
    /\ last.reads = 0
    /\ last.parses = 0

\* Normalization has just failed in a resolve made with records cached.
C12_Witness ==
  /\ last.op = "resolve" /\ last.norm_failed
  /\ ret.type = "COMMON"
  /\ cache # <<>>

\* The references to module n that no record of the list holds.
OutsideRefs(refs, list, n) ==
  refs[n] - Cardinality({i \in 1..Len(list) : list[i].module = n})

\* C16: a resolve that returns a module, from the cache or newly parsed,
\* adds exactly one reference to it besides those the records hold, and
\* the returned module's record keeps its own; when a caller frees a
\* reference, every module of a cached record stays alive with its record.
C16_CallerReference ==
  [][/\ (last'.op = "resolve" /\ ret'.tag = "module") =>
          /\ OutsideRefs(modRefs', cache', ret'.id) = OutsideRefs(modRefs, cache, ret'.id) + 1
          /\ \E i \in 1..Len(cache') : cache'[i].module = ret'.id
          /\ modRefs'[ret'.id] >= 2
     /\ last'.op = "free_value" =>
          /\ cache' = cache
          /\ \A i \in 1..Len(cache) :
               /\ modRefs'[cache[i].module] >= 1
               /\ nativePtr'[cache[i].module] = cache[i]]_vars

\* The caller has just freed its only reference to the module last
\* returned, which is still cached and alive.
C16_Witness ==
  /\ last.op = "free_value"
  /\ ret.tag = "module"
  /\ Linked(ret.id) /\ held[ret.id] = 0 /\ modRefs[ret.id] = 1

\* C17: a resolve served from the cache leaves the list as it was; a
\* resolve that parses a module leaves the list with one record more, at
\* its head, made of the normalized path, that path's directory end, the
\* current realm and the parsed module, and the records there before
\* unchanged and in their order behind it.
C17_SuccessFrame ==
  [][/\ last'.outcome = "hit" => cache' = cache
     /\ last'.outcome = "inserted" =>
          /\ Len(cache') = Len(cache) + 1
          /\ Head(cache') = [path |-> last'.path,
                             base_path_length |-> jerry_port_get_directory_end(last'.path),
                             realm |-> last'.realm,
                             module |-> ret'.id]
          /\ Tail(cache') = cache]_vars

\* A module has just been parsed and linked in front of an older record.
C17_Witness ==
  /\ last.outcome = "inserted"
  /\ Len(cache) = 2
  /\ cache[1].module = ret.id /\ cache[2].module # ret.id

\* C19 as stated: every module value that carries a record pointer points
\* to a record that is in the cache list.
C19_NoEvictedRecord ==
  \A n \in Objects :
    nativePtr[n] # NoRecord => \E i \in 1..Len(cache) : cache[i] = nativePtr[n]

\* C20 as stated: a resolve that returns has freed the specifier buffer
\* once, has freed the path buffer once or stored it in the new record,
\* has released the source it read, and has released the realm reference
\* or stored it in the new record.
C20_TemporariesReleased ==
  (last.op = "resolve" /\ last.outcome # "crash") =>
    LET t == last.temps
    IN  /\ t.in_path_allocs = 1 /\ t.in_path_frees = t.in_path_allocs
        /\ t.path_frees + t.path_stored = t.path_allocs
        /\ t.source_releases = t.source_reads
        /\ t.realm_frees + t.realm_stored = t.realm_refs
        /\ (t.path_stored = 1 \/ t.realm_stored = 1) => last.outcome = "inserted"

\* File names: no separator in them.
SiblingNames == { <<"b">>, <<"x", "m">> }

\* C13: jerry_port_get_directory_end of a path with no separator is 0;
\* otherwise it is the position just after the last separator, so that the
\* prefix of that length ends with the separator, and the prefix followed
\* by a file name is a path whose directory end is the same.
C13_DirectoryEnd ==
  pathCall.fn = "jerry_port_get_directory_end" =>
    LET path == pathCall.in_path
        end == pathCall.result
        seps == {i \in 1..Len(path) : path[i] = "/"}
        prefix == SubSeq(path, 1, end)
    IN  /\ seps = {} => end = 0
        /\ seps # {} => (end \in seps /\ \A i \in seps : i <= end)
        /\ end > 0 => prefix[Len(prefix)] = "/"
        /\ \A name \in SiblingNames :
             /\ Concatenate(name, path, end) = prefix \o name
             /\ jerry_port_get_directory_end(prefix \o name) = end

\* The directory end of "/d/m" has been computed: 3, the length of "/d/".
C13_Witness ==
  /\ pathCall.fn = "jerry_port_get_directory_end"
  /\ pathCall.in_path = <<"/", "d", "/", "m">>
  /\ pathCall.result = 3

\* C14 as stated: the bytes a resolve hands to realpath are the first
\* base_path_length bytes of the path of the record the referrer carries,
\* with the specifier's bytes right behind them, base_path_length being
\* the directory end of that path; they are the specifier's bytes when the
\* referrer carries no record.
C14_BaseDirectory ==
  (probe.on /\ last.op = "resolve" /\ last.outcome # "crash" /\ ~last.norm_failed) =>
    LET module_p == IF probe.referrer = 0 THEN NoRecord ELSE nativePtr[probe.referrer]
    IN  IF module_p # NoRecord
          THEN /\ module_p.base_path_length = jerry_port_get_directory_end(module_p.path)
               /\ probe.pre = SubSeq(module_p.path, 1, module_p.base_path_length)
                                \o probe.specifier
          ELSE probe.pre = probe.specifier

\* A path is canonical: absolute, naming an entry that exists, with no
\* empty, "." or ".." component.
Canonical(path) ==
  /\ path # <<>> /\ path[1] = "/"
  /\ Node(path) # NoEnt
  /\ path = <<"/">> \/
       \A i \in 2..Len(Split(path)) :
         Split(path)[i] \notin { <<>>, <<".">>, <<".", ".">> }

\* C15: jerry_port_normalize_path returns NULL exactly when its allocation
\* fails; otherwise it returns the canonical path of the concatenation when
\* realpath gives one, and the concatenation itself when realpath fails.
C15_BestEffort ==
  pathCall.fn = "jerry_port_normalize_path" =>
    LET pre == Concatenate(pathCall.in_path, pathCall.base_path, pathCall.base_path_length)
        canon == realpath(pre, pathCall.canon_fails)
    IN  /\ pathCall.result = NullPath <=> pathCall.alloc_fails
        /\ (~pathCall.alloc_fails /\ canon = NullPath) => pathCall.result = pre
        /\ (~pathCall.alloc_fails /\ canon # NullPath) =>
             /\ pathCall.result = canon
             /\ Canonical(pathCall.result)
             /\ Node(pathCall.result) = Node(pre)

\* "x" next to /d/m has been normalized: no such file, realpath fails and
\* the concatenation /d/x comes back.
C15_Witness ==
  /\ pathCall.fn = "jerry_port_normalize_path"
  /\ pathCall.base_path_length = 3 /\ pathCall.in_path = <<"x">>
  /\ ~pathCall.alloc_fails /\ ~pathCall.canon_fails
  /\ pathCall.result = <<"/", "d", "/", "x">>

\* C18: the pass of jerry_port_module_free over a list of N records ends
\* after N turns that examine the records in list order, each once and
\* none after it was freed, whatever it removes; on the empty list it
\* changes nothing.
C18_EvictionPass ==
  [][(last'.op = "release" \/ last'.op = "deinit") =>
       LET st == jerry_port_module_free(cache, last'.realm, realmRefs, modRefs)
       IN  /\ st.module_p = 0
           /\ st.visits = [i \in 1..Len(cache) |-> i]
           /\ \A k \in 1..Len(st.visits) :
                \A j \in 1..(k - 1) : st.visits[j] \in st.freed => st.visits[k] # st.visits[j]
           /\ cache' = Chain(cache, st.head, st.next, Len(cache))
           /\ cache = <<>> =>
                /\ cache' = <<>>
                /\ realmRefs' = realmRefs /\ modRefs' = modRefs
                /\ nativePtr' = nativePtr]_vars

\* A list of MaxList records, all held by callers, has just been released
\* whole in one pass.
C18_Witness ==
  /\ last.op = "release" /\ last.realm = "undefined"
  /\ cache = <<>>
  /\ \A n \in 1..MaxList : nativePtr[n] # NoRecord /\ held[n] > 0

====
